---------------------------- MODULE Spec2Model ----------------------------
(***************************************************************************)
(* Model of the band disentanglement of pybinding/results.py: the class    *)
(* Disentangle (its routine selector, its cached disentangle_matrix, the   *)
(* two matching routines and the application of the mapping to data).      *)
(*                                                                         *)
(* Arrays are functions over 0..n-1, as numpy indexes them.  A Python list *)
(* is a sequence.  An overlap is an integer number of hundredths: the      *)
(* value v stands for the float v / 100.                                   *)
(***************************************************************************)
EXTENDS Integers, Sequences, FiniteSets, TLC

VARIABLES overlap_matrix,       \* Disentangle.overlap_matrix, shape (K-1, B, B)
          overlap_shape,        \* Disentangle.overlap_matrix.shape
          threshold,            \* Disentangle.threshold
          _routine,             \* Disentangle._routine
          _disentangle_matrix,  \* Disentangle._disentangle_matrix: None or (ind, working_indices)
          calc,                 \* locals of the _calc_disentangle_matrix call that made the cached pair
          result,               \* what the last operation returned or raised
          tie,                  \* which of several optimal assignments scipy returns
          arg_matrix,           \* the matrix a matching routine is called with
          ret_approx,           \* what _linear_sum_approx returned for arg_matrix
          ret_scipy,            \* what _linear_sum_scipy returned for arg_matrix
          other,                \* a second Disentangle of the same overlap_matrix
          wavefunction,         \* Wavefunction.wavefunction, complex, shape (K, B, C)
          bands,                \* Wavefunction.bands
          _overlap_matrix,      \* Wavefunction._overlap_matrix: None or the overlap tensor
          _disentangle,         \* Wavefunction._disentangle: None or the Disentangle instance
          calls,                \* how often the overlap was computed and a Disentangle constructed
          k_points,             \* make_path: the points k0, k1, *ks it is called with
          step,                 \* make_path: its argument step
          path,                 \* make_path: what it returned or raised
          points,               \* Path.points of the returned path
          sweep,                \* a Sweep instance
          axis,                 \* Sweep.mirrored: its argument axis
          mirrored_ret          \* Sweep.mirrored: what it returned or raised

\* the variables of one Disentangle instance
disentangle_vars ==
    <<overlap_matrix, overlap_shape, threshold, _routine, _disentangle_matrix, calc, result>>

\* the variables of a direct call of the matching routines
match_vars == <<arg_matrix, ret_approx, ret_scipy>>

\* the variables of one Wavefunction instance
wave_vars == <<wavefunction, bands, _overlap_matrix, _disentangle, calls>>

\* the variables of a call of make_path
path_vars == <<k_points, step, path, points>>

\* the variables of one Sweep instance
sweep_vars == <<sweep, axis, mirrored_ret>>

\* the variables of the results that are no part of the disentanglement
free_vars == <<path_vars, sweep_vars>>

vars == <<disentangle_vars, tie, match_vars, other, wave_vars, free_vars>>

\* The values of the variables that hold an object are records tagged with its type.
None == [type |-> "NoneType"]
\* a failed assert, with the start of its message
AssertionError(msg) == [type |-> "AssertionError", msg |-> msg]
\* a raised RuntimeError, with its message
RuntimeError(msg) == [type |-> "RuntimeError", msg |-> msg]
\* a ValueError raised inside numpy, with the start of its message
ValueError(msg) == [type |-> "ValueError", msg |-> msg]
\* np.nan: the entries of the data are integers, np.nan is none of them
NaN == -1

(***************************************************************************)
(* Bounds of the model.                                                    *)
(***************************************************************************)
\* the number of entries (K - 1) * B * B of the largest overlap tensor
MaxEntries == 8

\* the overlaps an entry of the tensor is drawn from, in hundredths
Levels == {0, 50, 90}

\* the number of bands of the largest matrix a matching routine is called with directly
MaxBands == 3

\* the overlaps an entry of such a matrix is drawn from, in hundredths
MatchLevels == {50, 90}

(***************************************************************************)
(* numpy helpers                                                           *)
(***************************************************************************)
arange(n) == [i \in 0..(n - 1) |-> i]

full(n, v) == [i \in 0..(n - 1) |-> v]

len(a) == Cardinality(DOMAIN a)

\* np.max of a 1D array of integers
max1(a) == CHOOSE m \in {a[i] : i \in DOMAIN a} : \A i \in DOMAIN a : a[i] <= m

\* np.max of a 2D array of integers
max2(a) == CHOOSE m \in {a[i][j] : i \in DOMAIN a, j \in DOMAIN a[0]} :
               \A i \in DOMAIN a : \A j \in DOMAIN a[i] : a[i][j] <= m

\* a bug: the last position holding the maximum is taken
argmax_last(list) == CHOOSE i \in 0..(Len(list) - 1) :
                         /\ \A j \in 0..(Len(list) - 1) : list[j + 1] <= list[i + 1]
                         /\ \A j \in (i + 1)..(Len(list) - 1) : list[j + 1] < list[i + 1]

\* a bug: np.argmin is called
argmax_min(list) == CHOOSE i \in 0..(Len(list) - 1) :
                        /\ \A j \in 0..(Len(list) - 1) : list[j + 1] >= list[i + 1]
                        /\ \A j \in 0..(i - 1) : list[j + 1] > list[i + 1]

\* np.argmax of a list: the first position holding the maximum (0-based)
argmax(list) == CHOOSE i \in 0..(Len(list) - 1) :
                    /\ \A j \in 0..(Len(list) - 1) : list[j + 1] <= list[i + 1]
                    /\ \A j \in 0..(i - 1) : list[j + 1] < list[i + 1]

\* a bug: the chosen column stays in the pool
pop_nothing(list, i) == list

\* list.pop(i): the list without its element at 0-based position i
pop(list, i) == [j \in 1..(Len(list) - 1) |-> IF j <= i THEN list[j] ELSE list[j + 1]]

\* arange(n).tolist()
tolist(n) == [j \in 1..n |-> j - 1]

(***************************************************************************)
(* The threshold.  The constructor sets it to |2 B| ** -0.25, which is     *)
(* irrational for most B: [kind |-> "root", arg |-> d] stands for          *)
(* d ** -0.25 and [kind |-> "value", arg |-> a] for the float a / 100.     *)
(***************************************************************************)
DefaultThreshold(om) == [kind |-> "root", arg |-> 2 * len(om[0])]

Zero == [kind |-> "value", arg |-> 0]

\* self.threshold == 0
IsZero(thr) == thr.kind = "value" /\ thr.arg = 0

\* a bug: the comparison is not strict
GreaterThan_or_equal(v, thr) ==
    IF thr.kind = "root"
    THEN v * v * v * v * thr.arg >= 100 * 100 * 100 * 100
    ELSE v >= thr.arg

\* a bug: the comparison is reversed
GreaterThan_reversed(v, thr) ==
    IF thr.kind = "root"
    THEN v * v * v * v * thr.arg < 100 * 100 * 100 * 100
    ELSE v < thr.arg

\* v / 100 > thr, for an overlap v >= 0
GreaterThan(v, thr) ==
    IF thr.kind = "root"
    THEN v * v * v * v * thr.arg > 100 * 100 * 100 * 100
    ELSE v > thr.arg

(***************************************************************************)
(* The matching routines.  Each yields the set of the (ind, keep) pairs it *)
(* can return for a square matrix.                                         *)
(***************************************************************************)
RECURSIVE ApproxLoop(_, _, _, _, _, _)
ApproxLoop(matrix, thr, i_b, index_all, ind, keep) ==
    IF i_b = len(matrix)
    THEN [ind |-> ind, keep |-> keep]
    ELSE LET i_max == argmax([j \in 1..Len(index_all) |-> matrix[i_b][index_all[j]]])
             i_new == index_all[i_max + 1]
         IN ApproxLoop(matrix, thr, i_b + 1, pop(index_all, i_max),
                       [ind EXCEPT ![i_b] = i_new],
                       [keep EXCEPT ![i_b] = GreaterThan(matrix[i_b][i_new], thr)])

_linear_sum_approx(matrix, thr) ==
    {ApproxLoop(matrix, thr, 0, tolist(len(matrix)),
                full(len(matrix), 0), full(len(matrix), FALSE))}

\* the bijections of 0..n-1
Permutations0(n) ==
    {p \in [0..(n - 1) -> 0..(n - 1)] : \A i, j \in 0..(n - 1) : p[i] = p[j] => i = j}

RECURSIVE SumTo(_, _, _)
\* cost[0, perm[0]] + ... + cost[n-1, perm[n-1]]
SumTo(cost, perm, n) ==
    IF n = 0 THEN 0 ELSE SumTo(cost, perm, n - 1) + cost[n - 1][perm[n - 1]]

\* the assignments of minimum cost
MinimumCost(cost) ==
    {perm \in Permutations0(len(cost)) :
        \A perm2 \in Permutations0(len(cost)) :
            SumTo(cost, perm, len(cost)) <= SumTo(cost, perm2, len(cost))}

RECURSIVE Rank(_, _)
\* the place of a permutation in the lexicographic order: perm read as a number in base n
Rank(perm, n) == IF n = 0 THEN 0 ELSE Rank(perm, n - 1) * len(perm) + perm[n - 1]

\* scipy.optimize.linear_sum_assignment(cost) of a square cost matrix: the row
\* indices are arange(n), the column indices an assignment of minimum cost.  scipy is
\* deterministic, and which assignment it returns when several have the minimum cost
\* is not part of its contract: with tie = "any" each call may return any of them,
\* with tie = "first" (or "last") every call returns the lexicographically first (last)
linear_sum_assignment(cost) ==
    IF tie = "any"
    THEN MinimumCost(cost)
    ELSE {CHOOSE perm \in MinimumCost(cost) :
            \A perm2 \in MinimumCost(cost) :
                IF tie = "first"
                THEN Rank(perm, len(cost)) <= Rank(perm2, len(cost))
                ELSE Rank(perm, len(cost)) >= Rank(perm2, len(cost))}

\* a bug: the weights are not negated, and the assignment of minimum weight is taken
Negated_not(matrix) == matrix

\* -matrix
Negated(matrix) == [i \in DOMAIN matrix |-> [j \in DOMAIN matrix[i] |-> 0 - matrix[i][j]]]

_linear_sum_scipy(matrix, thr) ==
    LET cost == Negated(matrix)
    IN {[ind |-> perm,
         keep |-> [b \in DOMAIN matrix |-> GreaterThan(matrix[b][perm[b]], thr)]] :
            perm \in linear_sum_assignment(cost)}

\* a bug: the routine selector is not read, the optimal routine is always taken
func_scipy(use, matrix, thr) == _linear_sum_scipy(matrix, thr)

\* func of _calc_disentangle_matrix
func(use, matrix, thr) ==
    IF use = 0 THEN _linear_sum_approx(matrix, thr) ELSE _linear_sum_scipy(matrix, thr)


(***************************************************************************)
(* _calc_disentangle_matrix                                                *)
(***************************************************************************)
\* a bug: the slice is matched in raw band order
Reordered_raw(slice, ind_row) == slice

\* overlap_matrix[i_k - 1, ind[i_k - 1], :]: the rows of the slice reordered by ind
Reordered(slice, ind_row) == [b \in DOMAIN ind_row |-> slice[ind_row[b]]]

\* a bug: keep[0] is left as np.zeros made it
FirstRow_zeros(n_b) == [ind |-> arange(n_b), keep |-> full(n_b, FALSE)]

\* the rows of ind and keep at the first k-point
FirstRow(n_b) == [ind |-> arange(n_b), keep |-> full(n_b, TRUE)]

RECURSIVE IndKeepLoop(_, _, _, _)
\* the first loop over the k-points: the (ind, keep) arrays with rows 0..i_k filled
IndKeepLoop(om, use, thr, i_k) ==
    IF i_k = 0
    THEN {[ind |-> (0 :> FirstRow(len(om[0])).ind),
           keep |-> (0 :> FirstRow(len(om[0])).keep)]}
    ELSE UNION {
            {[ind |-> prev.ind @@ (i_k :> r.ind), keep |-> prev.keep @@ (i_k :> r.keep)] :
                r \in func(use, Reordered(om[i_k - 1], prev.ind[i_k - 1]), thr)} :
            prev \in IndKeepLoop(om, use, thr, i_k - 1)}

\* a bug: the zero threshold is not exempted
Retired_unguarded(kept, thr) == ~kept

\* not keep[i_k, i_b] and not self.threshold == 0
Retired(kept, thr) == ~kept /\ ~IsZero(thr)

\* a bug: the new index is the maximum in use
NewIndex_max(tmp_w_i) == max1(tmp_w_i)

\* a bug: the new index is one past the band count
NewIndex_len(tmp_w_i) == len(tmp_w_i)

\* np.max(tmp_w_i) + 1
NewIndex(tmp_w_i) == max1(tmp_w_i) + 1

RECURSIVE BandLoop(_, _, _, _)
\* the inner loop over the bands: tmp_w_i after the bands 0..i_b-1 of one k-point
BandLoop(keep_row, thr, i_b, tmp_w_i) ==
    IF i_b = 0
    THEN tmp_w_i
    ELSE LET tmp == BandLoop(keep_row, thr, i_b - 1, tmp_w_i)
         IN IF Retired(keep_row[i_b - 1], thr)
            THEN [tmp EXCEPT ![i_b - 1] = NewIndex(tmp)]
            ELSE tmp

\* a bug: tmp_w_i starts again from arange(n_b) at every k-point
Carried_reset(prev, i_k) == arange(len(prev[0]))

\* tmp_w_i at the start of k-point i_k, given the rows of working_indices before it
Carried(prev, i_k) == prev[i_k - 1]

RECURSIVE WorkingLoop(_, _, _)
\* the second loop over the k-points: the rows 0..i_k of working_indices
WorkingLoop(keep, thr, i_k) ==
    LET n_b == len(keep[0])
    IN IF i_k = 0
       THEN (0 :> BandLoop(keep[0], thr, n_b, arange(n_b)))
       ELSE LET prev == WorkingLoop(keep, thr, i_k - 1)
            IN prev @@ (i_k :> BandLoop(keep[i_k], thr, n_b, Carried(prev, i_k)))

\* a bug: a selector that is neither 0 nor 1 falls through to the optimal routine
_calc_disentangle_matrix_fallthrough(om, use, thr) ==
    LET n_k == len(om) + 1
        n_b == len(om[0])
        used == IF use = 0 THEN 0 ELSE 1
    IN {LET working_indices == WorkingLoop(ik.keep, thr, n_k - 1)
        IN IF IsZero(thr) /\ max2(working_indices) + 1 # n_b
           THEN AssertionError("This shouldn't happen")
           ELSE [type |-> "locals", ind |-> ik.ind,
                 working_indices |-> working_indices, keep |-> ik.keep] :
           ik \in IndKeepLoop(om, used, thr, n_k - 1)}

\* a bug: ind is returned in the place of working_indices
_calc_disentangle_matrix_ind_twice(om, use, thr) ==
    IF use \notin {0, 1}
    THEN {AssertionError("The value for ise_scipy")}
    ELSE {[type |-> "locals", ind |-> ik.ind, working_indices |-> ik.ind,
           keep |-> ik.keep] : ik \in IndKeepLoop(om, use, thr, len(om))}

\* the outcomes of _calc_disentangle_matrix: AssertionError, or the pair it returns
\* together with its local keep
_calc_disentangle_matrix(om, use, thr) ==
    IF use \notin {0, 1}
    THEN {AssertionError("The value for ise_scipy")}
    ELSE LET n_k == len(om) + 1
             n_b == len(om[0])
         IN {LET working_indices == WorkingLoop(ik.keep, thr, n_k - 1)
             IN IF IsZero(thr) /\ max2(working_indices) + 1 # n_b
                THEN AssertionError("This shouldn't happen")
                ELSE [type |-> "locals", ind |-> ik.ind,
                      working_indices |-> working_indices, keep |-> ik.keep] :
                ik \in IndKeepLoop(om, use, thr, n_k - 1)}

(***************************************************************************)
(* _apply_disentanglement                                                  *)
(***************************************************************************)
\* a bug: the values are taken in raw band order
Gathered_raw(matrix_row, ind_row) == matrix_row

\* matrix[i_k, ind[i_k]]
Gathered(matrix_row, ind_row) == [b \in DOMAIN ind_row |-> matrix_row[ind_row[b]]]

RECURSIVE Scatter(_, _, _, _)
\* out_values[i_k, working_indices[i_k]] = values: the row after the writes of the
\* bands 0..i_b-1, in order (a later write to the same slot replaces an earlier one)
Scatter(out_row, w_row, values, i_b) ==
    IF i_b = 0
    THEN out_row
    ELSE [Scatter(out_row, w_row, values, i_b - 1) EXCEPT ![w_row[i_b - 1]] = values[i_b - 1]]

\* a bug: the output keeps the band count of the input
out_size_bands(working_indices) == len(working_indices[0])

\* size[1] = np.max(working_indices) + 1
out_size(working_indices) == max2(working_indices) + 1

\* the shape (K, B) of a 2D array
shape2(a) == <<len(a), len(a[0])>>

_apply_disentanglement(matrix, pair) ==
    IF shape2(matrix) # shape2(pair.ind)
    THEN AssertionError("The shapes of the matrices don't agree")
    ELSE LET n_b == len(pair.working_indices[0])
             size1 == out_size(pair.working_indices)
         IN [type |-> "ndarray",
             data |-> [i_k \in DOMAIN pair.working_indices |->
                         Scatter(full(size1, NaN), pair.working_indices[i_k],
                                 Gathered(matrix[i_k], pair.ind[i_k]), n_b)]]


(***************************************************************************)
(* The inputs of the model.                                                *)
(***************************************************************************)
\* the square matrices of n_b bands
Matrices(n_b) == [0..(n_b - 1) -> [0..(n_b - 1) -> Levels]]

\* the overlap tensors of n_k k-points and n_b bands, of shape (n_k - 1, n_b, n_b)
Tensors(n_k, n_b) == [0..(n_k - 2) -> Matrices(n_b)]

\* the shapes (K, B) of at least two k-points and two bands that fit in MaxEntries
Shapes ==
    {s \in (2..(MaxEntries + 1)) \X (2..MaxEntries) : (s[1] - 1) * s[2] * s[2] <= MaxEntries}

\* the routine selectors that are assigned: the two routines and one that does not exist
Routines == {0, 1, 2}

\* the values the threshold is forced to
Thresholds == {Zero}

\* the data a Disentangle is applied to: the energies of K k-points and B bands
Energies(n_k, n_b) ==
    {[i_k \in 0..(n_k - 1) |-> [i_b \in 0..(n_b - 1) |-> 10 * i_k + i_b]]}

(***************************************************************************)
(* The state machine of one Disentangle instance.                          *)
(***************************************************************************)
\* make_path was not called
NoPath ==
    /\ k_points = None
    /\ step = None
    /\ path = None
    /\ points = None

\* there is no Sweep
NoSweep ==
    /\ sweep = None
    /\ axis = None
    /\ mirrored_ret = None

\* there is no Wavefunction
NoWavefunction ==
    /\ wavefunction = None
    /\ bands = None
    /\ _overlap_matrix = None
    /\ _disentangle = None
    /\ calls = None

\* Disentangle.__init__
Init ==
    /\ overlap_matrix \in UNION {Tensors(s[1], s[2]) : s \in Shapes}
    /\ overlap_shape = <<len(overlap_matrix), len(overlap_matrix[0]), len(overlap_matrix[0][0])>>
    /\ threshold = DefaultThreshold(overlap_matrix)
    /\ _disentangle_matrix = None
    /\ _routine = 1
    /\ calc = None
    /\ result = None
    /\ tie = "any"
    /\ other = None
    /\ arg_matrix = None
    /\ ret_approx = None
    /\ ret_scipy = None
    /\ NoWavefunction
    /\ NoPath
    /\ NoSweep

\* a bug: the setter keeps the cached pair
routine_setter_keep(use) ==
    /\ _routine' = use
    /\ result' = None
    /\ UNCHANGED <<overlap_matrix, overlap_shape, threshold, _disentangle_matrix, calc>>

\* Disentangle.routine = use
routine_setter(use) ==
    /\ _routine' = use
    /\ _disentangle_matrix' = None
    /\ calc' = None
    /\ result' = None
    /\ UNCHANGED <<overlap_matrix, overlap_shape, threshold>>

\* Disentangle.threshold = thr
threshold_setter(thr) ==
    /\ threshold' = thr
    /\ result' = None
    /\ UNCHANGED <<overlap_matrix, overlap_shape, _routine, _disentangle_matrix, calc>>

\* a bug: every read computes the pair again
Read_recompute ==
    {IF o.type = "AssertionError"
     THEN [value |-> o, cache |-> _disentangle_matrix, locals |-> calc]
     ELSE LET pair == [type |-> "tuple", ind |-> o.ind,
                       working_indices |-> o.working_indices]
          IN [value |-> pair, cache |-> pair,
              locals |-> [type |-> "locals", keep |-> o.keep,
                          threshold |-> threshold, routine |-> _routine]] :
        o \in _calc_disentangle_matrix(overlap_matrix, _routine, threshold)}

\* a bug: only the number of axes is asserted
overlap_shape_asserts_axes(shape) ==
    IF Len(shape) # 3
    THEN AssertionError("The overlap has the wrong shape")
    ELSE None

\* the two asserts on the shape of the overlap tensor that _calc_disentangle_matrix
\* starts with: the error of the first that fails, None when both hold
overlap_shape_asserts(shape) ==
    IF Len(shape) # 3
    THEN AssertionError("The overlap has the wrong shape")
    ELSE IF shape[2] # shape[3]
         THEN AssertionError("currently, only square matrices can be used")
         ELSE None

\* the Disentangle instance that the variables hold
Self ==
    [type |-> "Disentangle", overlap_matrix |-> overlap_matrix,
     overlap_shape |-> overlap_shape, threshold |-> threshold, _routine |-> _routine,
     _disentangle_matrix |-> _disentangle_matrix, calc |-> calc]

\* the outcomes of a read of the property disentangle_matrix of the instance self: the
\* value read or the error raised, with the cache and the locals it leaves.  The pair
\* is computed when none is cached, and an AssertionError leaves the cache as it is
ReadOf(self) ==
    IF self._disentangle_matrix = None
    THEN IF overlap_shape_asserts(self.overlap_shape) # None
         THEN {[value |-> overlap_shape_asserts(self.overlap_shape),
                cache |-> self._disentangle_matrix, locals |-> self.calc]}
         ELSE {IF o.type = "AssertionError"
               THEN [value |-> o, cache |-> self._disentangle_matrix, locals |-> self.calc]
               ELSE LET pair == [type |-> "tuple", ind |-> o.ind,
                                 working_indices |-> o.working_indices]
                    IN [value |-> pair, cache |-> pair,
                        locals |-> [type |-> "locals", keep |-> o.keep,
                                    threshold |-> self.threshold,
                                    routine |-> self._routine]] :
                  o \in _calc_disentangle_matrix(self.overlap_matrix, self._routine,
                                                 self.threshold)}
    ELSE {[value |-> self._disentangle_matrix, cache |-> self._disentangle_matrix,
           locals |-> self.calc]}

\* the outcomes of a read of the property disentangle_matrix
Read == ReadOf(Self)

\* Disentangle.disentangle_matrix
disentangle_matrix ==
    \E r \in Read :
        /\ _disentangle_matrix' = r.cache
        /\ calc' = r.locals
        /\ result' = r.value
        /\ UNCHANGED <<overlap_matrix, overlap_shape, threshold, _routine>>

\* Disentangle.__call__(matrix)
__call__(matrix) ==
    \E r \in Read :
        /\ _disentangle_matrix' = r.cache
        /\ calc' = r.locals
        /\ result' = IF r.value.type = "AssertionError"
                     THEN r.value
                     ELSE _apply_disentanglement(matrix, r.value)
        /\ UNCHANGED <<overlap_matrix, overlap_shape, threshold, _routine>>

Next ==
    /\ \/ \E use \in Routines : routine_setter(use)
       \/ \E thr \in Thresholds : threshold_setter(thr)
       \/ disentangle_matrix
       \/ \E matrix \in Energies(len(overlap_matrix) + 1, len(overlap_matrix[0])) :
             __call__(matrix)
    /\ UNCHANGED <<tie, match_vars, other, wave_vars, free_vars>>

Spec == Init /\ [][Next]_vars

\* Disentangle.__init__ with an overlap tensor whose entries are 0.5 or 0.9
InitCache ==
    /\ overlap_matrix \in UNION {[0..(s[1] - 2) -> [0..(s[2] - 1) -> [0..(s[2] - 1) -> MatchLevels]]] :
                                    s \in Shapes}
    /\ overlap_shape = <<len(overlap_matrix), len(overlap_matrix[0]), len(overlap_matrix[0][0])>>
    /\ threshold = DefaultThreshold(overlap_matrix)
    /\ _disentangle_matrix = None
    /\ _routine = 1
    /\ calc = None
    /\ result = None
    /\ tie = "any"
    /\ other = None
    /\ arg_matrix = None
    /\ ret_approx = None
    /\ ret_scipy = None
    /\ NoWavefunction
    /\ NoPath
    /\ NoSweep

\* the state machine of one Disentangle instance, for the properties of its cache
SpecCache == InitCache /\ [][Next]_vars

\* the overlap slices of the scenarios of two bands, in hundredths: the bands go
\* straight on, the bands are exchanged, and the bands are lost
SliceStraight == (0 :> (0 :> 90 @@ 1 :> 10) @@ 1 :> (0 :> 10 @@ 1 :> 90))
SliceExchanged == (0 :> (0 :> 5 @@ 1 :> 95) @@ 1 :> (0 :> 95 @@ 1 :> 5))
SliceLost == (0 :> (0 :> 1 @@ 1 :> 0) @@ 1 :> (0 :> 0 @@ 1 :> 1))

\* the overlap tensors of three k-points made of these slices
ScenarioTensors == [0..1 -> {SliceStraight, SliceExchanged, SliceLost}]

\* Disentangle.__init__ with an overlap tensor of the scenarios
InitScenario ==
    /\ overlap_matrix \in ScenarioTensors
    /\ overlap_shape = <<len(overlap_matrix), len(overlap_matrix[0]), len(overlap_matrix[0][0])>>
    /\ threshold = DefaultThreshold(overlap_matrix)
    /\ _disentangle_matrix = None
    /\ _routine = 1
    /\ calc = None
    /\ result = None
    /\ tie = "any"
    /\ other = None
    /\ arg_matrix = None
    /\ ret_approx = None
    /\ ret_scipy = None
    /\ NoWavefunction
    /\ NoPath
    /\ NoSweep

\* the state machine of one Disentangle instance, for the scenarios
SpecScenario == InitScenario /\ [][Next]_vars

(***************************************************************************)
(* The matching routines called directly with a square matrix.             *)
(***************************************************************************)
\* the thresholds of a direct call: 0.5, which is one of MatchLevels, and the default
MatchThresholds(matrix) == {[kind |-> "value", arg |-> 50], DefaultThreshold(0 :> matrix)}

\* a Disentangle whose routines are called with arg_matrix
InitMatch ==
    /\ arg_matrix \in UNION {[0..(n_b - 1) -> [0..(n_b - 1) -> MatchLevels]] :
                                n_b \in 2..MaxBands}
    /\ threshold \in MatchThresholds(arg_matrix)
    /\ ret_approx = None
    /\ ret_scipy = None
    /\ NoWavefunction
    /\ NoPath
    /\ NoSweep
    /\ tie = "any"
    /\ other = None
    /\ overlap_matrix = None
    /\ overlap_shape = None
    /\ _routine = 1
    /\ _disentangle_matrix = None
    /\ calc = None
    /\ result = None

\* self._linear_sum_approx(arg_matrix)
call_linear_sum_approx ==
    /\ \E r \in _linear_sum_approx(arg_matrix, threshold) :
          ret_approx' = [type |-> "tuple", ind |-> r.ind, keep |-> r.keep]
    /\ UNCHANGED <<disentangle_vars, tie, arg_matrix, ret_scipy, other, wave_vars, free_vars>>

\* self._linear_sum_scipy(arg_matrix)
call_linear_sum_scipy ==
    /\ \E r \in _linear_sum_scipy(arg_matrix, threshold) :
          ret_scipy' = [type |-> "tuple", ind |-> r.ind, keep |-> r.keep]
    /\ UNCHANGED <<disentangle_vars, tie, arg_matrix, ret_approx, other, wave_vars, free_vars>>

NextMatch == call_linear_sum_approx \/ call_linear_sum_scipy

SpecMatch == InitMatch /\ [][NextMatch]_vars

(***************************************************************************)
(* Two Disentangle instances of one overlap tensor, with the same routine  *)
(* and each with its own threshold.                                        *)
(***************************************************************************)
\* the float of the threshold t1 is at most the float of the threshold t2
ThresholdLeq(t1, t2) ==
    IF t1.kind = "value"
    THEN IF t2.kind = "value"
         THEN t1.arg <= t2.arg
         ELSE t1.arg * t1.arg * t1.arg * t1.arg * t2.arg <= 100000000
    ELSE IF t2.kind = "value"
         THEN 100000000 <= t2.arg * t2.arg * t2.arg * t2.arg * t1.arg
         ELSE t2.arg <= t1.arg

\* the thresholds of the two instances: 0, the default and 0.9
ThresholdsTwo(om) == {Zero, DefaultThreshold(om), [kind |-> "value", arg |-> 90]}

\* the routine of both instances and, for the optimal routine, which of several
\* optimal assignments scipy returns on every call
RoutinesTwo == {<<0, "first">>, <<1, "first">>, <<1, "last">>}

\* two instances constructed from one tensor, after the routine and the threshold
\* of each have been assigned: the threshold of the second is not the smaller one
InitTwo ==
    /\ overlap_matrix \in UNION {[0..(s[1] - 2) -> [0..(s[2] - 1) -> [0..(s[2] - 1) -> MatchLevels]]] :
                                    s \in Shapes}
    /\ overlap_shape = <<len(overlap_matrix), len(overlap_matrix[0]), len(overlap_matrix[0][0])>>
    /\ \E rt \in RoutinesTwo : _routine = rt[1] /\ tie = rt[2]
    /\ threshold \in ThresholdsTwo(overlap_matrix)
    /\ _disentangle_matrix = None
    /\ calc = None
    /\ result = None
    /\ \E t2 \in ThresholdsTwo(overlap_matrix) :
          /\ ThresholdLeq(threshold, t2)
          /\ other = [type |-> "Disentangle", overlap_matrix |-> overlap_matrix,
                      overlap_shape |-> overlap_shape, threshold |-> t2,
                      _routine |-> _routine, _disentangle_matrix |-> None, calc |-> None]
    /\ arg_matrix = None
    /\ ret_approx = None
    /\ ret_scipy = None
    /\ NoWavefunction
    /\ NoPath
    /\ NoSweep

\* other.disentangle_matrix
other_disentangle_matrix ==
    \E r \in ReadOf(other) :
        /\ other' = [other EXCEPT !._disentangle_matrix = r.cache, !.calc = r.locals]
        /\ result' = r.value
        /\ UNCHANGED <<overlap_matrix, overlap_shape, threshold, _routine,
                       _disentangle_matrix, calc, tie, match_vars, wave_vars, free_vars>>

NextTwo ==
    \/ disentangle_matrix /\ UNCHANGED <<tie, match_vars, other, wave_vars, free_vars>>
    \/ other_disentangle_matrix

SpecTwo == InitTwo /\ [][NextTwo]_vars

(***************************************************************************)
(* A Disentangle of an array of any shape, applied to data of any shape.   *)
(* An array is given with its shape, as numpy holds it.                    *)
(***************************************************************************)
ndarray(shape, data) == [type |-> "ndarray", shape |-> shape, data |-> data]

RECURSIVE Arrays(_, _)
\* the arrays of a shape with entries of a set
Arrays(shape, entries) ==
    IF shape = <<>>
    THEN entries
    ELSE [0..(shape[1] - 1) -> Arrays(Tail(shape), entries)]

\* the shapes of the arrays a Disentangle is constructed with: those of the overlap
\* tensors, two axes, four axes, and three axes of which the last two differ
OverlapShapes ==
    {<<s[1] - 1, s[2], s[2]>> : s \in Shapes}
    \cup {<<2, 2>>, <<1, 2, 2, 1>>, <<1, 2, 3>>, <<1, 3, 2>>}

RECURSIVE Labelled(_, _)
\* the array of a shape whose entries tell their place: entry (i, j) is 10 * i + j
Labelled(shape, label) ==
    IF shape = <<>>
    THEN label
    ELSE [i \in 0..(shape[1] - 1) |-> Labelled(Tail(shape), 10 * label + i)]

\* the shapes of the data an engine of n_k k-points and n_b bands is applied to: a
\* scalar, one axis, and two axes of the sizes (n_k, n_b) and next to them
DataShapes(n_k, n_b) ==
    {<<>>, <<n_k>>, <<n_k, n_b>>, <<n_k + 1, n_b>>, <<n_k - 1, n_b>>,
     <<n_k, n_b + 1>>, <<n_k, n_b - 1>>}

\* Disentangle(arr)
InitShape ==
    /\ overlap_shape \in OverlapShapes
    /\ overlap_matrix \in Arrays(overlap_shape, MatchLevels)
    /\ threshold = [kind |-> "root", arg |-> 2 * overlap_shape[2]]
    /\ _disentangle_matrix = None
    /\ _routine = 1
    /\ calc = None
    /\ result = None
    /\ tie = "any"
    /\ other = None
    /\ arg_matrix = None
    /\ ret_approx = None
    /\ ret_scipy = None
    /\ NoWavefunction
    /\ NoPath
    /\ NoSweep

\* Disentangle.__call__(matrix) for an array of any shape.  The number of axes of
\* the data is asserted before the pair is read, the leading axes after it
__call__ndarray(matrix) ==
    IF Len(matrix.shape) < 2
    THEN /\ result' = AssertionError("The wavefunction has the wrong shape")
         /\ UNCHANGED <<overlap_matrix, overlap_shape, threshold, _routine,
                        _disentangle_matrix, calc>>
    ELSE __call__(matrix.data)

NextShape ==
    /\ \/ \E use \in Routines : routine_setter(use)
       \/ disentangle_matrix
       \/ \E shape \in DataShapes(overlap_shape[1] + 1, overlap_shape[2]) :
             __call__ndarray(ndarray(shape, Labelled(shape, 0)))
    /\ UNCHANGED <<tie, match_vars, other, wave_vars, free_vars>>

SpecShape == InitShape /\ [][NextShape]_vars

(***************************************************************************)
(* Wavefunction.  A complex number is the pair <<re, im>>.  A component c  *)
(* of a wavefunction stands for c / 5, so that a product of two components *)
(* is a number of 25ths and a probability p stands for p / 25.             *)
(***************************************************************************)
\* the largest number of k-points of a wavefunction
MaxKPoints == 3

Plus(z, w) == <<z[1] + w[1], z[2] + w[2]>>

Times(z, w) == <<z[1] * w[1] - z[2] * w[2], z[1] * w[2] + z[2] * w[1]>>

\* the magnitude of a complex number whose magnitude is an integer
magnitude(z) == CHOOSE r \in 0..(z[1] * z[1] + z[2] * z[2]) : r * r = z[1] * z[1] + z[2] * z[2]

\* np.abs of a product of two components, in hundredths
np_abs(z) == 4 * magnitude(z)

\* a bug: the conjugate is not taken
conj_nothing(a) == a

\* a.conj() of a 2D array
conj(a) == [i \in DOMAIN a |-> [j \in DOMAIN a[i] |-> <<a[i][j][1], -a[i][j][2]>>]]

\* a.T of a 2D array
T(a) == [j \in DOMAIN a[0] |-> [i \in DOMAIN a |-> a[i][j]]]

RECURSIVE dot(_, _, _, _)
\* the sum over c < n of a[i, c] * b[c, j]
dot(a, b, ij, n) ==
    IF n = 0
    THEN <<0, 0>>
    ELSE Plus(dot(a, b, ij, n - 1), Times(a[ij[1]][n - 1], b[n - 1][ij[2]]))

\* a @ b of two 2D arrays
matmul(a, b) == [i \in DOMAIN a |-> [j \in DOMAIN b[0] |-> dot(a, b, <<i, j>>, len(b))]]

\* a bug: the overlap is taken with the k-point itself
following_same(i_k) == i_k

\* the k-point after i_k
following(i_k) == i_k + 1

\* Wavefunction._calc_overlap_matrix(): an AssertionError or the overlap tensor
_calc_overlap_matrix(wf) ==
    IF Len(wf.shape) # 3
    THEN AssertionError("The favefunction has the wrong shape")
    ELSE IF ~(wf.shape[1] > 1)
         THEN AssertionError("There must be more than one k-point")
         ELSE LET n_k == wf.shape[1]
                  slice(i_k) == matmul(wf.data[i_k], conj(T(wf.data[following(i_k)])))
              IN ndarray(<<n_k - 1, wf.shape[2], wf.shape[2]>>,
                         [i_k \in 0..(n_k - 2) |->
                             [a \in DOMAIN slice(i_k) |->
                                 [b \in DOMAIN slice(i_k)[a] |-> np_abs(slice(i_k)[a][b])]]])

\* Disentangle(om): the instance after construction
Disentangle(om) ==
    [type |-> "Disentangle", overlap_matrix |-> om.data, overlap_shape |-> om.shape,
     threshold |-> [kind |-> "root", arg |-> 2 * om.shape[2]], _routine |-> 1,
     _disentangle_matrix |-> None, calc |-> None]

RECURSIVE FullNaN(_)
\* np.full(shape, np.nan)
FullNaN(shape) ==
    IF shape = <<>> THEN NaN ELSE [i \in 0..(shape[1] - 1) |-> FullNaN(Tail(shape))]

\* Disentangle._apply_disentanglement for data of two axes or more, given with its
\* shape, after the pair was read
_apply_disentanglement_nd(matrix, pair) ==
    IF <<matrix.shape[1], matrix.shape[2]>> # shape2(pair.ind)
    THEN AssertionError("The shapes of the matrices don't agree")
    ELSE LET n_b == len(pair.working_indices[0])
             size1 == out_size(pair.working_indices)
             rest == SubSeq(matrix.shape, 3, Len(matrix.shape))
         IN ndarray(<<matrix.shape[1], size1>> \o rest,
                    [i_k \in DOMAIN pair.working_indices |->
                        Scatter(full(size1, FullNaN(rest)), pair.working_indices[i_k],
                                Gathered(matrix.data[i_k], pair.ind[i_k]), n_b)])

\* the band vectors of three components: (1, 0, 0), (0, 1, 0), (0, 0, 1),
\* (3/5, 4i/5, 0) and (4i/5, 3/5, 0)
Vector100 == (0 :> <<5, 0>> @@ 1 :> <<0, 0>> @@ 2 :> <<0, 0>>)
Vector010 == (0 :> <<0, 0>> @@ 1 :> <<5, 0>> @@ 2 :> <<0, 0>>)
Vector001 == (0 :> <<0, 0>> @@ 1 :> <<0, 0>> @@ 2 :> <<5, 0>>)
Vector34i0 == (0 :> <<3, 0>> @@ 1 :> <<0, 4>> @@ 2 :> <<0, 0>>)
Vector4i30 == (0 :> <<0, 4>> @@ 1 :> <<3, 0>> @@ 2 :> <<0, 0>>)

\* the wavefunctions of two bands at one k-point: the bands are orthogonal and of
\* norm 1, and they span two of the three dimensions
Bases ==
    {(0 :> Vector100 @@ 1 :> Vector010), (0 :> Vector010 @@ 1 :> Vector100),
     (0 :> Vector34i0 @@ 1 :> Vector4i30), (0 :> Vector4i30 @@ 1 :> Vector34i0),
     (0 :> Vector100 @@ 1 :> Vector001), (0 :> Vector001 @@ 1 :> Vector010)}

\* the shapes of the wavefunction arrays: (K, 2, 3) for K k-points, one k-point,
\* two axes and four axes
WaveShapes ==
    {<<n_k, 2, 3>> : n_k \in 1..MaxKPoints} \cup {<<2, 3>>, <<2, 2, 2, 1>>}

\* the wavefunction arrays of a shape
WaveArrays(shape) ==
    IF Len(shape) = 3
    THEN [0..(shape[1] - 1) -> Bases]
    ELSE IF Len(shape) = 2 THEN Bases ELSE Arrays(shape, {<<5, 0>>})

\* Wavefunction(bands, wavefunction)
InitWave ==
    /\ \E shape \in WaveShapes : \E data \in WaveArrays(shape) :
          /\ wavefunction = ndarray(shape, data)
          /\ bands = [type |-> "Bands",
                      energy |-> ndarray(<<shape[1], shape[2]>>, Labelled(<<shape[1], shape[2]>>, 0))]
    /\ _overlap_matrix = None
    /\ _disentangle = None
    /\ calls = [_calc_overlap_matrix |-> 0, Disentangle |-> 0]
    /\ NoPath
    /\ NoSweep
    /\ overlap_matrix = None
    /\ overlap_shape = None
    /\ threshold = None
    /\ _routine = None
    /\ _disentangle_matrix = None
    /\ calc = None
    /\ result = None
    /\ tie = "any"
    /\ other = None
    /\ arg_matrix = None
    /\ ret_approx = None
    /\ ret_scipy = None

\* a bug: the overlap is computed at every read
Wavefunction_overlap_matrix_again ==
    LET o == _calc_overlap_matrix(wavefunction)
    IN IF o.type = "AssertionError"
       THEN [value |-> o, _overlap_matrix |-> _overlap_matrix, computed |-> 0]
       ELSE [value |-> o, _overlap_matrix |-> o, computed |-> 1]

\* the outcome of a read of the property Wavefunction.overlap_matrix: the value read
\* or the error raised, the cache it leaves and how often the overlap was computed
Wavefunction_overlap_matrix ==
    IF _overlap_matrix = None
    THEN LET o == _calc_overlap_matrix(wavefunction)
         IN IF o.type = "AssertionError"
            THEN [value |-> o, _overlap_matrix |-> _overlap_matrix, computed |-> 0]
            ELSE [value |-> o, _overlap_matrix |-> o, computed |-> 1]
    ELSE [value |-> _overlap_matrix, _overlap_matrix |-> _overlap_matrix, computed |-> 0]

\* a bug: a Disentangle is constructed at every read
Wavefunction_disentangle_again ==
    LET o == Wavefunction_overlap_matrix
    IN IF o.value.type = "AssertionError"
       THEN [value |-> o.value, _overlap_matrix |-> o._overlap_matrix,
             _disentangle |-> _disentangle, computed |-> o.computed, constructed |-> 0]
       ELSE [value |-> Disentangle(o.value), _overlap_matrix |-> o._overlap_matrix,
             _disentangle |-> [type |-> "Disentangle", id |-> calls.Disentangle + 1],
             computed |-> o.computed, constructed |-> 1]

\* the outcome of a read of the property Wavefunction.disentangle: the instance read
\* or the error raised, the caches it leaves, and how often the overlap was computed
\* and a Disentangle constructed.  The instances are told apart by their id
Wavefunction_disentangle ==
    IF _disentangle = None
    THEN LET o == Wavefunction_overlap_matrix
         IN IF o.value.type = "AssertionError"
            THEN [value |-> o.value, _overlap_matrix |-> o._overlap_matrix,
                  _disentangle |-> _disentangle, computed |-> o.computed, constructed |-> 0]
            ELSE [value |-> Disentangle(o.value), _overlap_matrix |-> o._overlap_matrix,
                  _disentangle |-> [type |-> "Disentangle", id |-> calls.Disentangle + 1],
                  computed |-> o.computed, constructed |-> 1]
    ELSE [value |-> Self, _overlap_matrix |-> _overlap_matrix,
          _disentangle |-> _disentangle, computed |-> 0, constructed |-> 0]

\* the Disentangle instance that the variables hold becomes self
Becomes(self) ==
    /\ overlap_matrix' = self.overlap_matrix
    /\ overlap_shape' = self.overlap_shape
    /\ threshold' = self.threshold
    /\ _routine' = self._routine
    /\ _disentangle_matrix' = self._disentangle_matrix
    /\ calc' = self.calc

\* what a read d of the property disentangle leaves in the Wavefunction
Leaves(d) ==
    /\ _overlap_matrix' = d._overlap_matrix
    /\ _disentangle' = d._disentangle
    /\ calls' = [_calc_overlap_matrix |-> calls._calc_overlap_matrix + d.computed,
                 Disentangle |-> calls.Disentangle + d.constructed]
    /\ UNCHANGED <<wavefunction, bands>>

\* the engine variables as they are
Unconstructed ==
    UNCHANGED <<overlap_matrix, overlap_shape, threshold, _routine, _disentangle_matrix, calc>>

\* the outcomes of self(matrix) for data given with its shape: the array or the error,
\* and the instance as the call leaves it
CallOf(self, matrix) ==
    IF Len(matrix.shape) < 2
    THEN {[value |-> AssertionError("The wavefunction has the wrong shape"), self |-> self]}
    ELSE {[value |-> IF r.value.type = "AssertionError"
                     THEN r.value
                     ELSE _apply_disentanglement_nd(matrix, r.value),
           self |-> [self EXCEPT !._disentangle_matrix = r.cache, !.calc = r.locals]] :
             r \in ReadOf(self)}

\* np.abs(self.wavefunction ** 2) of a wavefunction of three axes, in 25ths
probablitiy ==
    ndarray(wavefunction.shape,
            [i_k \in DOMAIN wavefunction.data |->
                [i_b \in DOMAIN wavefunction.data[i_k] |->
                    [c \in DOMAIN wavefunction.data[i_k][i_b] |->
                        magnitude(Times(wavefunction.data[i_k][i_b][c],
                                        wavefunction.data[i_k][i_b][c]))]]])

\* Wavefunction.fatbands without sublattices: the data is the probability
fatbands == [type |-> "FatBands", energy |-> bands.energy, data |-> probablitiy]

\* Wavefunction.overlap_matrix
overlap_matrix_read ==
    LET o == Wavefunction_overlap_matrix
    IN /\ _overlap_matrix' = o._overlap_matrix
       /\ calls' = [calls EXCEPT !._calc_overlap_matrix = @ + o.computed]
       /\ result' = o.value
       /\ Unconstructed
       /\ UNCHANGED <<wavefunction, bands, _disentangle>>

\* Wavefunction.disentangle
disentangle_read ==
    LET d == Wavefunction_disentangle
    IN /\ Leaves(d)
       /\ IF d.value.type = "AssertionError"
          THEN result' = d.value /\ Unconstructed
          ELSE result' = d._disentangle /\ Becomes(d.value)

\* Wavefunction.disentangle.routine = use
disentangle_routine_setter(use) ==
    LET d == Wavefunction_disentangle
    IN /\ Leaves(d)
       /\ IF d.value.type = "AssertionError"
          THEN result' = d.value /\ Unconstructed
          ELSE /\ result' = None
               /\ Becomes([d.value EXCEPT !._routine = use, !._disentangle_matrix = None,
                                          !.calc = None])

\* Wavefunction.bands_disentangled
bands_disentangled ==
    LET d == Wavefunction_disentangle
    IN /\ Leaves(d)
       /\ IF d.value.type = "AssertionError"
          THEN result' = d.value /\ Unconstructed
          ELSE \E c \in CallOf(d.value, bands.energy) :
                  /\ Becomes(c.self)
                  /\ result' = IF c.value.type = "AssertionError"
                               THEN c.value
                               ELSE [type |-> "Bands", energy |-> c.value]

\* a bug: the data of fatbands is returned as it is
fatbands_disentangled_raw ==
    LET d == Wavefunction_disentangle
    IN /\ Leaves(d)
       /\ IF d.value.type = "AssertionError"
          THEN result' = d.value /\ Unconstructed
          ELSE \E c \in CallOf(d.value, fatbands.energy) :
                  /\ Becomes(c.self)
                  /\ result' = IF c.value.type = "AssertionError"
                               THEN c.value
                               ELSE [type |-> "FatBands", energy |-> c.value,
                                     data |-> fatbands.data]

\* Wavefunction.fatbands_disentangled: fatbands, then bands_disentangled, then the
\* instance that bands_disentangled has stored applied to the data of fatbands
fatbands_disentangled ==
    LET d == Wavefunction_disentangle
    IN /\ Leaves(d)
       /\ IF d.value.type = "AssertionError"
          THEN result' = d.value /\ Unconstructed
          ELSE \E c \in CallOf(d.value, fatbands.energy) :
                  IF c.value.type = "AssertionError"
                  THEN result' = c.value /\ Becomes(c.self)
                  ELSE \E c2 \in CallOf(c.self, fatbands.data) :
                          /\ Becomes(c2.self)
                          /\ result' = IF c2.value.type = "AssertionError"
                                       THEN c2.value
                                       ELSE [type |-> "FatBands", energy |-> c.value,
                                             data |-> c2.value]

NextWave ==
    /\ \/ overlap_matrix_read
       \/ disentangle_read
       \/ \E use \in Routines : disentangle_routine_setter(use)
       \/ bands_disentangled
       \/ fatbands_disentangled
    /\ UNCHANGED <<tie, match_vars, other, free_vars>>

SpecWave == InitWave /\ [][NextWave]_vars

(***************************************************************************)
(* make_path and Path.  The given points have integer coordinates and the  *)
(* step is a positive integer.  A coordinate of the path is a float: the   *)
(* fraction <<n, d>> stands for the float n / d.                           *)
(***************************************************************************)
\* the largest coordinate of a given point
MaxCoord == 2

\* the largest number of coordinates of a given point
MaxDim == 2

\* the largest number of given points
MaxPoints == 3

\* the largest step
MaxStep == 2

\* a scalar argument
int(v) == [type |-> "int", value |-> v]

\* a list argument
list(v) == [type |-> "list", value |-> v]

\* the float of an integer
float(v) == <<v, 1>>

\* two floats are equal
FloatEq(f, g) == f[1] * g[2] = g[1] * f[2]

\* np.atleast_1d of a scalar or a list of scalars
atleast_1d(a) ==
    IF a.type = "int" THEN (0 :> a.value)
    ELSE [i \in 0..(Len(a.value) - 1) |-> a.value[i + 1]]

\* all(k.shape == k_points[0].shape for k in k_points[:1])
all_same_shape(kp) ==
    LET slice == SubSeq(kp, 1, 1)
    IN \A i \in DOMAIN slice : len(slice[i]) = len(kp[1])

\* the shapes (a,) and (b,) broadcast
Broadcasts(a, b) == len(a) = len(b) \/ len(a) = 1 \/ len(b) = 1

\* k_end - k_start of two arrays whose shapes broadcast
Minus(k_end, k_start) ==
    LET n == IF len(k_end) >= len(k_start) THEN len(k_end) ELSE len(k_start)
    IN [i \in 0..(n - 1) |-> k_end[IF len(k_end) = 1 THEN 0 ELSE i]
                                - k_start[IF len(k_start) = 1 THEN 0 ELSE i]]

\* sum of the squares of the first n entries
RECURSIVE SumSquares(_, _)
SumSquares(d, n) == IF n = 0 THEN 0 ELSE SumSquares(d, n - 1) + d[n - 1] * d[n - 1]

\* int(np.linalg.norm(d) // step): the largest n with n * step <= sqrt(sum of squares)
int_norm_floordiv(d, st) ==
    LET q == SumSquares(d, len(d))
    IN CHOOSE n \in 0..q : n * n * st * st <= q /\ (n + 1) * (n + 1) * st * st > q

\* np.linspace(s, e, n, endpoint=False)
linspace(s, e, n) == [j \in 0..(n - 1) |-> <<s * n + j * (e - s), n>>]

\* np.array([np.linspace(s, e, num_steps, endpoint=False)
\*           for s, e in zip(k_start, k_end)]).T
k_path_of(k_start, k_end, num_steps) ==
    LET m == IF len(k_start) <= len(k_end) THEN len(k_start) ELSE len(k_end)
    IN ndarray(<<num_steps, m>>,
               [j \in 0..(num_steps - 1) |->
                   [c \in 0..(m - 1) |-> linspace(k_start[c], k_end[c], num_steps)[j]]])

\* the loop over the pairs of consecutive points, from the i-th pair on: the
\* k_paths and the point_indices, or the ValueError of a subtraction numpy cannot
\* broadcast
RECURSIVE PathLoop(_, _, _, _, _)
PathLoop(kp, st, i, k_paths, point_indices) ==
    IF i > Len(kp) - 1
    THEN [type |-> "locals", k_paths |-> k_paths, point_indices |-> point_indices]
    ELSE IF ~Broadcasts(kp[i + 1], kp[i])
    THEN ValueError("operands could not be broadcast together")
    ELSE LET num_steps == int_norm_floordiv(Minus(kp[i + 1], kp[i]), st)
         IN PathLoop(kp, st, i + 1,
                     Append(k_paths, k_path_of(kp[i], kp[i + 1], num_steps)),
                     Append(point_indices, point_indices[Len(point_indices)] + num_steps))

\* np.atleast_2d of a 1D array of integers, as floats
atleast_2d(a) == ndarray(<<1, len(a)>>, (0 :> [c \in DOMAIN a |-> float(a[c])]))

\* the rows of the arrays, one after the other
RECURSIVE Rows(_)
Rows(arrays) ==
    IF arrays = <<>> THEN <<>>
    ELSE [j \in 1..arrays[1].shape[1] |-> arrays[1].data[j - 1]] \o Rows(Tail(arrays))

\* np.vstack of 2D arrays: a ValueError unless all have the same number of columns
vstack(arrays) ==
    IF \E i \in DOMAIN arrays : arrays[i].shape[2] # arrays[1].shape[2]
    THEN ValueError("all the input array dimensions except for the concatenation axis")
    ELSE LET rows == Rows(arrays)
         IN ndarray(<<Len(rows), arrays[1].shape[2]>>,
                    [j \in 0..(Len(rows) - 1) |-> rows[j + 1]])

\* Path.__new__
Path(array, point_indices) ==
    IF ~(Len(point_indices) >= 2)
    THEN AssertionError("")
    ELSE [type |-> "Path", array |-> array, point_indices |-> point_indices]

\* make_path(k0, k1, *ks, step=step)
make_path(ks, st) ==
    LET kp == [i \in DOMAIN ks |-> atleast_1d(ks[i])]
    IN IF ~all_same_shape(kp)
       THEN RuntimeError("All k-points must have the same shape")
       ELSE LET loop == PathLoop(kp, st, 1, <<>>, <<0>>)
            IN IF loop.type = "ValueError" THEN loop
               ELSE LET stacked == vstack(Append(loop.k_paths, atleast_2d(kp[Len(kp)])))
                    IN IF stacked.type = "ValueError" THEN stacked
                       ELSE Path(stacked, loop.point_indices)

\* Path.points: self[self.point_indices]
Path_points(self) ==
    ndarray(<<Len(self.point_indices), self.array.shape[2]>>,
            [i \in 0..(Len(self.point_indices) - 1) |->
                self.array.data[self.point_indices[i + 1]]])

\* the points make_path is called with: scalars and lists of scalars
GivenPoints ==
    {int(v) : v \in 0..MaxCoord}
        \cup UNION {{list(v) : v \in [1..n -> 0..MaxCoord]} : n \in 1..MaxDim}

\* there is no Disentangle and no call of a matching routine
NoDisentangle ==
    /\ overlap_matrix = None
    /\ overlap_shape = None
    /\ threshold = None
    /\ _routine = None
    /\ _disentangle_matrix = None
    /\ calc = None
    /\ result = None
    /\ tie = "any"
    /\ other = None
    /\ arg_matrix = None
    /\ ret_approx = None
    /\ ret_scipy = None

\* the arguments of a call of make_path
InitPath ==
    /\ k_points \in UNION {[1..n -> GivenPoints] : n \in 2..MaxPoints}
    /\ step \in 1..MaxStep
    /\ path = None
    /\ points = None
    /\ NoDisentangle
    /\ NoWavefunction
    /\ NoSweep

\* the call make_path(*k_points, step=step)
call_make_path ==
    /\ path = None
    /\ path' = make_path(k_points, step)
    /\ UNCHANGED <<k_points, step, points>>

\* a read of Path.points of the returned path
points_read ==
    /\ path.type = "Path"
    /\ points = None
    /\ points' = Path_points(path)
    /\ UNCHANGED <<k_points, step, path>>

NextPath ==
    /\ call_make_path \/ points_read
    /\ UNCHANGED <<disentangle_vars, tie, match_vars, other, wave_vars, sweep_vars>>

\* the state machine of one call of make_path
SpecPath == InitPath /\ [][NextPath]_vars

(***************************************************************************)
(* Sweep.  x and y are 1D arrays and data is a 2D array of integers, of    *)
(* the shape (x.size, y.size); np.atleast_1d and np.atleast_2d leave them  *)
(* as they are.  The labels and the tags are handed on and left out.       *)
(***************************************************************************)
\* the largest size of x and of y
MaxSize == 2

\* the values of x, of y and of data
SweepValues == {0, 1}

\* a str argument
str(v) == [type |-> "str", value |-> v]

\* Sweep.__init__
Sweep(x, y, data) == [type |-> "Sweep", x |-> x, y |-> y, data |-> data]

\* a[::-1]
Reversed(a) == [i \in DOMAIN a |-> a[len(a) - 1 - i]]

\* -a of a 1D array
Negative(a) == [i \in DOMAIN a |-> 0 - a[i]]

\* a[1:]
From1(a) == [i \in 0..(len(a) - 2) |-> a[i + 1]]

\* np.concatenate((a, b)), and np.vstack((a, b)) of 2D arrays with the same columns
concatenate(a, b) ==
    [i \in 0..(len(a) + len(b) - 1) |-> IF i < len(a) THEN a[i] ELSE b[i - len(a)]]

\* np.hstack((a, b)) of 2D arrays with the same rows
hstack(a, b) == [i \in DOMAIN a |-> concatenate(a[i], b[i])]

\* Sweep.mirrored(axis): the RuntimeError of the last branch is constructed and not
\* raised, the call returns None
mirrored(self, ax) ==
    IF ax = str("x")
    THEN Sweep(concatenate(Negative(Reversed(self.x)), From1(self.x)),
               self.y,
               concatenate(Reversed(self.data), From1(self.data)))
    ELSE IF ax = str("y")
    THEN Sweep(self.x,
               concatenate(Negative(Reversed(self.y)), From1(self.y)),
               hstack([i \in DOMAIN self.data |-> Reversed(self.data[i])],
                      [i \in DOMAIN self.data |-> From1(self.data[i])]))
    ELSE None

\* the arguments mirrored is called with
Axes == {str("x"), str("y"), str("z")}

\* Sweep(x, y, data)
InitSweep ==
    /\ \E n_x, n_y \in 1..MaxSize :
          sweep \in {Sweep(x, y, data) : x \in [0..(n_x - 1) -> SweepValues],
                                         y \in [0..(n_y - 1) -> SweepValues],
                                         data \in [0..(n_x - 1) -> [0..(n_y - 1) -> SweepValues]]}
    /\ axis = None
    /\ mirrored_ret = None
    /\ NoDisentangle
    /\ NoWavefunction
    /\ NoPath

\* the call sweep.mirrored(ax)
mirrored_call(ax) ==
    /\ axis' = ax
    /\ mirrored_ret' = mirrored(sweep, ax)
    /\ UNCHANGED sweep

NextSweep ==
    /\ \E ax \in Axes : mirrored_call(ax)
    /\ UNCHANGED <<disentangle_vars, tie, match_vars, other, wave_vars, path_vars>>

\* the state machine of one Sweep instance
SpecSweep == InitSweep /\ [][NextSweep]_vars


(***************************************************************************)
(* The properties.  They read the cached pair, the locals of the call that *)
(* computed it, and the value the last operation returned.                 *)
(***************************************************************************)
\* a pair is cached
Cached == _disentangle_matrix.type = "tuple"

\* the number of k-points and of bands
K == len(overlap_matrix) + 1
B == len(overlap_matrix[0])

KPoints == 0..(K - 1)
Bands == 0..(B - 1)

IndexMap == _disentangle_matrix.ind
WorkingIndexMap == _disentangle_matrix.working_indices
KeepMask == calc.keep

\* the overlap of track b between the k-points k-1 and k
Matched(k, b) == overlap_matrix[k - 1][IndexMap[k - 1][b]][IndexMap[k][b]]

\* the largest element of a finite non-empty set of integers
MaxOf(S) == CHOOSE m \in S : \A x \in S : x <= m

\* the pairs (k, b) that are not kept
NotKept == {kb \in KPoints \X Bands : ~KeepMask[kb[1]][kb[2]]}

\* p gives every row b a column that no earlier row has, of maximum value among those
IsGreedyAssignment(M, p) ==
    \A b \in DOMAIN M :
        LET taken == {p[b2] : b2 \in 0..(b - 1)}
        IN /\ p[b] \in (DOMAIN M) \ taken
           /\ \A c \in (DOMAIN M) \ taken : M[b][c] <= M[b][p[b]]

\* p is a bijection of maximum total weight
IsOptimalAssignment(M, p) ==
    /\ p \in Permutations0(len(M))
    /\ \A q \in Permutations0(len(M)) : SumTo(M, q, len(M)) <= SumTo(M, p, len(M))

\* p is an assignment the routine `use` makes for the matrix M
IsAssignmentOf(use, M, p) ==
    IF use = 0 THEN IsGreedyAssignment(M, p) ELSE IsOptimalAssignment(M, p)

\* C1: every row of IndexMap is a permutation of 0..B-1: no value repeats and every
\* value occurs, under both routines
C1_IndexMapRowsArePermutations ==
    Cached =>
        /\ DOMAIN IndexMap = KPoints
        /\ \A k \in KPoints :
              /\ DOMAIN IndexMap[k] = Bands
              /\ {IndexMap[k][b] : b \in Bands} = Bands
              /\ \A b1, b2 \in Bands : IndexMap[k][b1] = IndexMap[k][b2] => b1 = b2

\* C1 happens: the greedy routine has computed a row that is not the identity
C1_Witness ==
    /\ Cached
    /\ calc.routine = 0
    /\ \E k \in KPoints : IndexMap[k] # arange(B)

\* C2: for every k >= 1, IndexMap[k] is an assignment of the selected routine for the
\* matrix whose row b is row IndexMap[k-1, b] of the overlap slice k-1
C2_MatchedOnReorderedRows ==
    Cached =>
        \A k \in 1..(K - 1) :
            IsAssignmentOf(calc.routine,
                           [b \in Bands |-> overlap_matrix[k - 1][IndexMap[k - 1][b]]],
                           IndexMap[k])

\* C2 happens: the previous row is not the identity and the raw slice would not have
\* given the row that was computed
C2_Witness ==
    /\ Cached
    /\ \E k \in 1..(K - 1) :
          /\ IndexMap[k - 1] # arange(B)
          /\ ~IsAssignmentOf(calc.routine, overlap_matrix[k - 1], IndexMap[k])

\* C3: the output of an application holds data[k, IndexMap[k, b]] in slot
\* (k, WorkingIndexMap[k, b]) for every k and b, and NaN in every other slot
C3_ApplyScatters ==
    result.type = "ndarray" =>
        \E matrix \in Energies(K, B) :
            \A k \in KPoints :
                /\ \A b \in Bands :
                      result.data[k][WorkingIndexMap[k][b]] = matrix[k][IndexMap[k][b]]
                /\ \A w \in DOMAIN result.data[k] :
                      w \notin {WorkingIndexMap[k][b] : b \in Bands}
                          => result.data[k][w] = NaN

\* C3 happens: data was applied with a reordered row and a retired track
C3_Witness ==
    /\ result.type = "ndarray"
    /\ \E k \in KPoints : IndexMap[k] # arange(B) /\ WorkingIndexMap[k] # arange(B)

\* C4: the entries of every row of WorkingIndexMap are pairwise distinct, and the index
\* a band slot is retired from at k is held by no band slot at k or later
C4_WorkingIndexNeverReused ==
    Cached =>
        /\ \A k \in KPoints : \A b1, b2 \in Bands :
              WorkingIndexMap[k][b1] = WorkingIndexMap[k][b2] => b1 = b2
        /\ \A k \in 1..(K - 1) : \A b \in Bands :
              WorkingIndexMap[k][b] # WorkingIndexMap[k - 1][b]
                  => \A k2 \in k..(K - 1) : \A b2 \in Bands :
                        WorkingIndexMap[k2][b2] # WorkingIndexMap[k - 1][b]

\* C4 happens: a track is retired at one k-point and a track at a later one
C4_Witness ==
    /\ Cached
    /\ \E k \in 1..(K - 1) : \E k2 \in (k + 1)..(K - 1) :
          /\ WorkingIndexMap[k] # WorkingIndexMap[k - 1]
          /\ WorkingIndexMap[k2] # WorkingIndexMap[k2 - 1]

\* the working index of slot b before the scan reaches (k, b)
Inherited(k, b) == IF k = 0 THEN b ELSE WorkingIndexMap[k - 1][b]

\* the indices in use when the scan reaches (k, b)
InUse(k, b) ==
    {WorkingIndexMap[k][b2] : b2 \in 0..(b - 1)} \cup {Inherited(k, b2) : b2 \in b..(B - 1)}

\* C5: scanning in k-then-band order from the identity, a slot that is not kept under a
\* nonzero threshold gets one more than the maximum index in use at that moment, and
\* every other slot keeps the index it had at k-1
C5_WorkingIndexScan ==
    Cached =>
        \A k \in KPoints : \A b \in Bands :
            WorkingIndexMap[k][b] =
                IF ~KeepMask[k][b] /\ ~IsZero(calc.threshold)
                THEN MaxOf(InUse(k, b)) + 1
                ELSE Inherited(k, b)

\* C5 happens: two slots are retired at the same k-point
C5_Witness ==
    /\ Cached
    /\ \E k \in 1..(K - 1) : \E b1, b2 \in Bands :
          /\ b1 < b2
          /\ WorkingIndexMap[k][b1] # WorkingIndexMap[k - 1][b1]
          /\ WorkingIndexMap[k][b2] # WorkingIndexMap[k - 1][b2]

\* C6: the band axis of the output has size max(WorkingIndexMap) + 1, which is at least
\* B and, for a nonzero threshold, B plus the number of pairs that are not kept; the
\* k axis has the size of the input's
C6_OutputSize ==
    result.type = "ndarray" =>
        /\ DOMAIN result.data = KPoints
        /\ \A k \in KPoints :
              /\ DOMAIN result.data[k] = 0..max2(WorkingIndexMap)
              /\ len(result.data[k]) >= B
              /\ ~IsZero(calc.threshold) => len(result.data[k]) = B + Cardinality(NotKept)

\* C6 happens: the output is wider than the input
C6_Witness ==
    /\ result.type = "ndarray"
    /\ ~IsZero(calc.threshold)
    /\ len(result.data[0]) > B + 1

\* C7: with the threshold 0 the size assertion is never tripped, max(WorkingIndexMap) + 1
\* is B and every row of WorkingIndexMap is the identity
C7_ZeroThresholdNoGrowth ==
    /\ result.type = "AssertionError" => result.msg # "This shouldn't happen"
    /\ (Cached /\ IsZero(calc.threshold)) =>
          /\ max2(WorkingIndexMap) + 1 = B
          /\ \A k \in KPoints : WorkingIndexMap[k] = arange(B)

\* C7 happens: a pair was computed with the threshold 0 from a tensor with a matched
\* overlap that is not kept
C7_Witness ==
    /\ Cached
    /\ IsZero(calc.threshold)
    /\ NotKept # {}

\* C8 as stated: with the threshold 0 every KeepMask entry is true
C8_Original ==
    (Cached /\ IsZero(calc.threshold)) => \A k \in KPoints : \A b \in Bands : KeepMask[k][b]

\* C8, amended: with the threshold 0, KeepMask[k, b] is true exactly when k = 0 or the
\* matched overlap is strictly positive
C8_ZeroThresholdKeepsPositive ==
    (Cached /\ IsZero(calc.threshold)) =>
        \A k \in KPoints : \A b \in Bands : KeepMask[k][b] <=> (k = 0 \/ Matched(k, b) > 0)

\* C8 happens: with the threshold 0, one matched overlap is 0 and another is positive
C8_Witness ==
    /\ Cached
    /\ IsZero(calc.threshold)
    /\ \E k \in 1..(K - 1) : \E b1, b2 \in Bands : Matched(k, b1) = 0 /\ Matched(k, b2) > 0

\* C9: the maximum of row k of WorkingIndexMap does not decrease with k, and is B - 1
\* at k = 0
C9_MaxWorkingIndexMonotone ==
    Cached =>
        /\ max1(WorkingIndexMap[0]) = B - 1
        /\ \A k \in 1..(K - 1) : max1(WorkingIndexMap[k]) >= max1(WorkingIndexMap[k - 1])

\* C9 happens: the maximum grows at one k-point and stays at the next
C9_Witness ==
    /\ Cached
    /\ \E k \in 1..(K - 2) :
          /\ max1(WorkingIndexMap[k]) > max1(WorkingIndexMap[k - 1])
          /\ max1(WorkingIndexMap[k + 1]) = max1(WorkingIndexMap[k])

\* C10: at the first k-point IndexMap, KeepMask and WorkingIndexMap are the identity,
\* all true and the identity
C10_IdentityAtOrigin ==
    Cached =>
        /\ IndexMap[0] = arange(B)
        /\ \A b \in Bands : KeepMask[0][b]
        /\ WorkingIndexMap[0] = arange(B)

\* C10 happens: a pair was computed from a tensor whose first slice reorders the bands
\* and breaks a track, so that only the first row is the identity
C10_Witness ==
    /\ Cached
    /\ calc.routine = 1
    /\ IndexMap[1] # arange(B)
    /\ ~KeepMask[1][0]


(***************************************************************************)
(* The properties of the matching routines called directly.                *)
(***************************************************************************)
\* the total matched weight of the assignment p of the matrix M
Weight(M, p) == SumTo(M, p, len(M))

\* the overlap v (in hundredths) is strictly above the threshold
StrictlyAbove(v, thr) ==
    IF thr.kind = "value"
    THEN ~(v <= thr.arg)
    ELSE ~(thr.arg * v * v * v * v <= 100000000)

\* the overlap v (in hundredths) is the threshold
EqualTo(v, thr) ==
    IF thr.kind = "value"
    THEN v = thr.arg
    ELSE thr.arg * v * v * v * v = 100000000

\* both routines have returned
BothReturned == ret_approx.type = "tuple" /\ ret_scipy.type = "tuple"

\* C11: the total matched weight of the assignment of the optimal routine is at least
\* that of the assignment of the greedy routine on the same matrix
C11_OptimalAtLeastGreedy ==
    BothReturned => Weight(arg_matrix, ret_scipy.ind) >= Weight(arg_matrix, ret_approx.ind)

\* C11 happens: on a matrix of three bands the optimal routine found strictly more
\* weight than the greedy one
C11_Witness ==
    /\ BothReturned
    /\ len(arg_matrix) = 3
    /\ Weight(arg_matrix, ret_scipy.ind) > Weight(arg_matrix, ret_approx.ind)

\* C12: the greedy routine gives row b, for b ascending, a column that no row before
\* b has and whose value is the maximum of row b over the columns no row before b has
C12_GreedyTakesRowMaximum ==
    ret_approx.type = "tuple" =>
        /\ DOMAIN ret_approx.ind = DOMAIN arg_matrix
        /\ \A b \in DOMAIN arg_matrix :
              LET unassigned == (DOMAIN arg_matrix) \ {ret_approx.ind[b2] : b2 \in 0..(b - 1)}
              IN /\ ret_approx.ind[b] \in unassigned
                 /\ arg_matrix[b][ret_approx.ind[b]] =
                        MaxOf({arg_matrix[b][c] : c \in unassigned})

\* C12 happens: a row got less than its maximum because an earlier row has that column
C12_Witness ==
    /\ ret_approx.type = "tuple"
    /\ \E b \in DOMAIN arg_matrix :
          arg_matrix[b][ret_approx.ind[b]] < MaxOf({arg_matrix[b][c] : c \in DOMAIN arg_matrix})

\* C13: for both routines, keep[b] is true exactly when the matched value of row b is
\* strictly above the threshold; a matched value equal to the threshold is not kept
C13_KeepIsStrictComparison ==
    /\ ret_approx.type = "tuple" =>
          \A b \in DOMAIN arg_matrix :
              ret_approx.keep[b] <=> StrictlyAbove(arg_matrix[b][ret_approx.ind[b]], threshold)
    /\ ret_scipy.type = "tuple" =>
          \A b \in DOMAIN arg_matrix :
              ret_scipy.keep[b] <=> StrictlyAbove(arg_matrix[b][ret_scipy.ind[b]], threshold)

\* C13 happens: both routines matched a value equal to the threshold and one above it
C13_Witness ==
    /\ BothReturned
    /\ \E b1, b2 \in DOMAIN arg_matrix :
          /\ EqualTo(arg_matrix[b1][ret_approx.ind[b1]], threshold)
          /\ ~EqualTo(arg_matrix[b2][ret_approx.ind[b2]], threshold)
          /\ ret_approx.keep[b2]
    /\ \E b1, b2 \in DOMAIN arg_matrix :
          /\ EqualTo(arg_matrix[b1][ret_scipy.ind[b1]], threshold)
          /\ ~EqualTo(arg_matrix[b2][ret_scipy.ind[b2]], threshold)
          /\ ret_scipy.keep[b2]

(***************************************************************************)
(* The properties of the cache.                                            *)
(***************************************************************************)
\* a step that assigns Disentangle.routine
Assignment == \E use \in Routines : routine_setter(use)

\* a step that applies the engine to data
Application == \E matrix \in Energies(K, B) : __call__(matrix)

\* the index maps and the keep mask of the cached pair
CachedLocals ==
    [type |-> "locals", ind |-> IndexMap, working_indices |-> WorkingIndexMap,
     keep |-> KeepMask]

\* C15: the cached pair, which is what a read returns and an application uses, is a
\* pair the currently selected routine computes from the overlap tensor: an
\* assignment of the routine leaves no pair of the routine selected before
C15_PairOfSelectedRoutine ==
    /\ Cached =>
          /\ _routine \in {0, 1}
          /\ calc.routine = _routine
          /\ CachedLocals \in _calc_disentangle_matrix(overlap_matrix, _routine, calc.threshold)
    /\ result.type = "tuple" => Cached /\ result = _disentangle_matrix
    /\ result.type = "ndarray" =>
          /\ Cached
          /\ \E matrix \in Energies(K, B) :
                result = _apply_disentanglement(matrix, _disentangle_matrix)

\* C15 happens: the routine was assigned 0 and a read returned a pair that the routine
\* selected at construction does not compute
C15_Witness ==
    /\ _routine = 0
    /\ result.type = "tuple"
    /\ CachedLocals \notin _calc_disentangle_matrix(overlap_matrix, 1, calc.threshold)

\* C16 as stated: a step that leaves the routine value unchanged, an assignment of the
\* value the routine already has included, does not clear the cached pair
C16_Original ==
    [][(Cached /\ _routine' = _routine) => _disentangle_matrix' = _disentangle_matrix]_vars

\* C16: the pair is computed by a read or an application when none is cached, and the
\* cached pair is cleared by every assignment of the routine, one that leaves the value
\* unchanged included, and by nothing else: a read or an application of a cached pair
\* and an assignment of the threshold leave the pair and the locals it was computed
\* with as they are
C16_CacheUntilRoutineAssigned ==
    [][/\ (Cached /\ ~Assignment) => (_disentangle_matrix' = _disentangle_matrix /\ calc' = calc)
       /\ (Cached /\ Assignment) => ~Cached'
       /\ (~Cached /\ Cached') =>
              /\ disentangle_matrix \/ Application
              /\ result'.type \in {"tuple", "ndarray"}]_vars

\* C16 happens: data was applied with the cached pair after the threshold was assigned,
\* and the pair is the one computed with the threshold of the construction
C16_Witness ==
    /\ Cached
    /\ result.type = "ndarray"
    /\ calc.threshold # threshold

\* C17: while the routine is neither 0 nor 1 no pair is cached, and a read or an
\* application fails with the error of the selector and returns no pair or array;
\* a read with the routine 0 or 1 returns a pair
C17_UnknownRoutineIsFatal ==
    [][/\ _routine \notin {0, 1} =>
              /\ ~Cached
              /\ result.type \in {"NoneType", "AssertionError"}
              /\ (disentangle_matrix \/ Application) =>
                    /\ result' = AssertionError("The value for ise_scipy")
                    /\ ~Cached'
       /\ (_routine \in {0, 1} /\ disentangle_matrix) =>
              /\ result'.type = "tuple"
              /\ Cached']_vars

\* C17 happens: a read or an application failed on the selector 2
C17_Witness ==
    /\ _routine = 2
    /\ result = AssertionError("The value for ise_scipy")
    /\ ~Cached

(***************************************************************************)
(* The properties of two instances of one overlap tensor.                  *)
(***************************************************************************)
\* both instances have computed their pair
BothCached == Cached /\ other._disentangle_matrix.type = "tuple"

\* C14: for one overlap tensor and routine and two thresholds t1 <= t2, IndexMap is
\* the same under both, and every (k, b) that is kept under t2 is kept under t1
C14_KeepMonotoneInThreshold ==
    BothCached =>
        /\ ThresholdLeq(calc.threshold, other.calc.threshold)
        /\ other._disentangle_matrix.ind = IndexMap
        /\ \A k \in KPoints : \A b \in Bands : other.calc.keep[k][b] => KeepMask[k][b]

\* C14 happens: the bands are reordered, one (k, b) is kept under both thresholds and
\* another is kept under the lower threshold only
C14_Witness ==
    /\ BothCached
    /\ \E k \in KPoints : IndexMap[k] # arange(B)
    /\ \E k \in KPoints : \E b \in Bands : k > 0 /\ other.calc.keep[k][b]
    /\ \E k \in KPoints : \E b \in Bands : KeepMask[k][b] /\ ~other.calc.keep[k][b]

(***************************************************************************)
(* The properties of the shapes.                                           *)
(***************************************************************************)
\* the overlap tensor has three axes and its last two axes have the same size
OverlapWellShaped == Len(overlap_shape) = 3 /\ overlap_shape[2] = overlap_shape[3]

\* the data has at least two axes and its leading two axes are (K, B)
DataWellShaped(matrix) ==
    /\ Len(matrix.shape) >= 2
    /\ matrix.shape[1] = overlap_shape[1] + 1
    /\ matrix.shape[2] = overlap_shape[2]

\* C18: when the overlap tensor does not have exactly 3 axes or its last two axes
\* differ, nothing is cached and every read and application fails; an application to
\* data of fewer than 2 axes or of leading axes other than (K, B) fails; what fails
\* returns an error and no array
C18_ShapeViolationsAreFatal ==
    [][/\ ~OverlapWellShaped =>
              /\ ~Cached
              /\ ~Cached'
              /\ disentangle_matrix => result'.type = "AssertionError"
       /\ \A shape \in DataShapes(overlap_shape[1] + 1, overlap_shape[2]) :
              LET matrix == ndarray(shape, Labelled(shape, 0))
              IN (__call__ndarray(matrix) /\ ~(OverlapWellShaped /\ DataWellShaped(matrix))) =>
                     result'.type = "AssertionError"]_vars

\* C18 happens: a tensor whose last two axes differ made a read or an application fail
C18_Witness ==
    /\ result = AssertionError("currently, only square matrices can be used")
    /\ ~Cached

\* an application failed on data of the wrong leading axes, after the pair was computed
C18_DataWitness ==
    /\ result = AssertionError("The shapes of the matrices don't agree")
    /\ Cached

(***************************************************************************)
(* The properties of a Wavefunction.                                       *)
(***************************************************************************)
RECURSIVE InnerProduct(_, _, _)
\* the sum over c < n of x[c] times the conjugate of y[c]
InnerProduct(x, y, n) ==
    IF n = 0
    THEN <<0, 0>>
    ELSE Plus(InnerProduct(x, y, n - 1), Times(x[n - 1], <<y[n - 1][1], -y[n - 1][2]>>))

\* the wavefunction array has three axes and at least two k-points
WaveWellShaped == Len(wavefunction.shape) = 3 /\ wavefunction.shape[1] >= 2

\* C19: with a wavefunction array that does not have exactly 3 axes or has fewer than
\* 2 k-points the overlap cache stays unset and every access fails; otherwise, for
\* the shape (K, B, C), the overlap tensor has the shape (K-1, B, B) and its entry
\* (i, a, b) is the magnitude of the inner product of band a at k-point i with band b
\* at k-point i+1
C19_OverlapOfConsecutiveKPoints ==
    /\ ~WaveWellShaped =>
          /\ _overlap_matrix = None
          /\ result.type \in {"NoneType", "AssertionError"}
    /\ _overlap_matrix # None =>
          /\ WaveWellShaped
          /\ _overlap_matrix.shape =
                <<wavefunction.shape[1] - 1, wavefunction.shape[2], wavefunction.shape[2]>>
          /\ DOMAIN _overlap_matrix.data = 0..(wavefunction.shape[1] - 2)
          /\ \A i \in 0..(wavefunction.shape[1] - 2) :
                \A a, b \in 0..(wavefunction.shape[2] - 1) :
                    _overlap_matrix.data[i][a][b] =
                        4 * magnitude(InnerProduct(wavefunction.data[i][a],
                                                   wavefunction.data[i + 1][b],
                                                   wavefunction.shape[3]))

\* C19 happens: the overlap of three k-points was computed, its two slices differ and
\* one of them is neither the identity nor the exchange of the bands
C19_Witness ==
    /\ _overlap_matrix # None
    /\ wavefunction.shape[1] = 3
    /\ _overlap_matrix.data[0] # _overlap_matrix.data[1]
    /\ _overlap_matrix.data[1][0][1] = 80

\* C20: the overlap tensor is computed at most once and at most one Disentangle is
\* constructed, and neither before an access that needs it: a read of overlap_matrix
\* constructs no Disentangle; every access to disentangle gives the one instance, so
\* that its routine changes only when it is assigned
C20_BuiltLazilyAndOnce ==
    [][/\ calls'._calc_overlap_matrix <= 1
       /\ calls'.Disentangle <= 1
       /\ (calls._calc_overlap_matrix = 0) <=> (_overlap_matrix = None)
       /\ (calls.Disentangle = 0) <=> (_disentangle = None)
       /\ overlap_matrix_read => _disentangle' = _disentangle
       /\ _disentangle # None =>
              /\ _disentangle' = _disentangle
              /\ _overlap_matrix' = _overlap_matrix
              /\ overlap_matrix' = _overlap_matrix.data
              /\ (\E use \in Routines : disentangle_routine_setter(use)) \/ _routine' = _routine
              /\ disentangle_read => result' = _disentangle]_vars

\* C20 happens: the routine 0 was assigned on the instance and a later access applied
\* it to the energies and the probabilities
C20_Witness ==
    /\ calls = [_calc_overlap_matrix |-> 1, Disentangle |-> 1]
    /\ _routine = 0
    /\ result.type = "FatBands"

\* C21: in the FatBands of fatbands_disentangled the data has the k-points and the
\* band slots of the energy, and the data is NaN at (k, w, c) for every channel c
\* exactly when the energy is NaN at (k, w)
C21_EnergyAndDataAligned ==
    result.type = "FatBands" =>
        /\ DOMAIN result.data.data = DOMAIN result.energy.data
        /\ \A k \in DOMAIN result.energy.data :
              /\ DOMAIN result.data.data[k] = DOMAIN result.energy.data[k]
              /\ \A w \in DOMAIN result.energy.data[k] :
                    \A c \in DOMAIN result.data.data[k][w] :
                        (result.data.data[k][w][c] = NaN) <=> (result.energy.data[k][w] = NaN)

\* C21 happens: after the routine 0 was assigned, the bands are reordered at a k-point
\* where one slot of the FatBands is NaN and another holds an energy
C21_Witness ==
    /\ result.type = "FatBands"
    /\ _routine = 0
    /\ \E k \in DOMAIN result.energy.data :
          /\ IndexMap[k] # arange(B)
          /\ \E w1, w2 \in DOMAIN result.energy.data[k] :
                /\ result.energy.data[k][w1] = NaN
                /\ result.energy.data[k][w2] # NaN

(***************************************************************************)
(* The scenarios of two bands and three k-points.                          *)
(***************************************************************************)
\* the overlap tensor [[[0.9,0.1],[0.1,0.9]], [[0.05,0.95],[0.95,0.05]]]
ExchangeScenario == overlap_matrix = (0 :> SliceStraight @@ 1 :> SliceExchanged)

\* the overlap tensor with the first slice [[0.9,0.1],[0.1,0.9]] and the last slice
\* [[0.01,0.0],[0.0,0.01]]
LossScenario == overlap_matrix = (0 :> SliceStraight @@ 1 :> SliceLost)

\* the pair was computed with the threshold forced to 0
ComputedAtZero == Cached /\ IsZero(calc.threshold)

\* C22: in the exchange scenario with the threshold forced to 0 before the
\* computation, IndexMap is [[0,1],[0,1],[1,0]] and every entry of KeepMask is true,
\* under both routines
C22_ExchangeScenarioIndexMap ==
    (ExchangeScenario /\ ComputedAtZero) =>
        /\ IndexMap = (0 :> (0 :> 0 @@ 1 :> 1) @@ 1 :> (0 :> 0 @@ 1 :> 1)
                         @@ 2 :> (0 :> 1 @@ 1 :> 0))
        /\ \A k \in KPoints : \A b \in Bands : KeepMask[k][b]

\* C22 happens: the greedy routine computed the pair of the exchange scenario with
\* the threshold 0
C22_Witness == ExchangeScenario /\ ComputedAtZero /\ calc.routine = 0

\* C23 as stated: in the exchange scenario with the threshold forced to 0,
\* WorkingIndexMap is IndexMap and its maximum is 1
C23_Original ==
    (ExchangeScenario /\ ComputedAtZero) =>
        /\ WorkingIndexMap = IndexMap
        /\ max2(WorkingIndexMap) = 1

\* C23: in the exchange scenario with the threshold forced to 0, every row of
\* WorkingIndexMap is [0, 1], the row of IndexMap at the last k-point is [1, 0], and
\* the maximum of WorkingIndexMap is 1
C23_ExchangeScenarioWorkingIndexMap ==
    (ExchangeScenario /\ ComputedAtZero) =>
        /\ \A k \in KPoints : WorkingIndexMap[k] = arange(B)
        /\ IndexMap[2] # WorkingIndexMap[2]
        /\ max2(WorkingIndexMap) = 1

\* C23 happens: the optimal routine computed the pair of the exchange scenario with
\* the threshold 0, and data was applied with it
C23_Witness ==
    /\ ExchangeScenario
    /\ ComputedAtZero
    /\ calc.routine = 1
    /\ result.type = "ndarray"

\* C24: in the loss scenario with the default threshold, KeepMask at the last k-point
\* is [False, False] and the maximum of WorkingIndexMap goes from 1 at the k-point
\* before to 3 at the last
C24_LossScenarioRetiresBoth ==
    (LossScenario /\ Cached /\ calc.threshold = DefaultThreshold(overlap_matrix)) =>
        /\ KeepMask[2] = (0 :> FALSE @@ 1 :> FALSE)
        /\ max1(WorkingIndexMap[1]) = 1
        /\ max1(WorkingIndexMap[2]) = 3
        /\ WorkingIndexMap[2] = (0 :> 2 @@ 1 :> 3)

\* C24 happens: the pair of the loss scenario was computed with the default threshold
C24_Witness ==
    /\ LossScenario
    /\ Cached
    /\ calc.threshold = DefaultThreshold(overlap_matrix)
    /\ threshold = calc.threshold

(***************************************************************************)
(* make_path.                                                              *)
(***************************************************************************)
\* make_path was called and has returned or raised
PathCalled == path # None

\* the i-th given point, as make_path reads it
GivenPoint(i) == atleast_1d(k_points[i])

\* the given points all have the same shape
SameShapes == \A i \in DOMAIN k_points : len(GivenPoint(i)) = len(GivenPoint(1))

\* the row of the path at index j is the point p
RowIs(j, p) ==
    /\ j \in DOMAIN path.array.data
    /\ DOMAIN path.array.data[j] = DOMAIN p
    /\ \A c \in DOMAIN p : FloatEq(path.array.data[j][c], float(p[c]))

\* C25: make_path with points of one shape and a positive step returns a Path whose
\* point_indices has one entry per given point, starts at 0, ends at the last row
\* index, and whose row at point_indices[i] is the i-th given point, also when
\* consecutive points are closer together than step
C25_Original ==
    (PathCalled /\ SameShapes) =>
        /\ path.type = "Path"
        /\ Len(path.point_indices) = Len(k_points)
        /\ path.point_indices[1] = 0
        /\ path.point_indices[Len(k_points)] = path.array.shape[1] - 1
        /\ \A i \in DOMAIN k_points : RowIs(path.point_indices[i], GivenPoint(i))

\* C29: make_path with points that do not all have the same shape raises
\* RuntimeError("All k-points must have the same shape")
C29_Original ==
    (PathCalled /\ ~SameShapes) =>
        path = RuntimeError("All k-points must have the same shape")

(***************************************************************************)
(* The greedy routine against the optimal one.                             *)
(***************************************************************************)
\* the greedy routine matched strictly less weight than the optimal one
GreedySuboptimal ==
    /\ BothReturned
    /\ Weight(arg_matrix, ret_approx.ind) < Weight(arg_matrix, ret_scipy.ind)

\* the IndexMaps a Disentangle of the overlap tensor om can compute with the routine use
IndexMapsOf(om, use) == {p.ind : p \in _calc_disentangle_matrix(om, use, threshold)}

\* C26: the greedy routine is not globally optimal: a matrix on which it matches
\* strictly less weight than the optimal routine exists (the witness, of two bands),
\* and the overlap tensor made of such a matrix gets different IndexMaps from routine 0
\* and routine 1
C26_GreedyNotOptimal ==
    GreedySuboptimal =>
        /\ IndexMapsOf((0 :> arg_matrix), 0) # {}
        /\ IndexMapsOf((0 :> arg_matrix), 1) # {}
        /\ IndexMapsOf((0 :> arg_matrix), 0) \cap IndexMapsOf((0 :> arg_matrix), 1) = {}

\* C26 happens: on a nonnegative matrix of two bands the greedy routine matched
\* strictly less weight than the optimal one
C26_Witness ==
    /\ GreedySuboptimal
    /\ len(arg_matrix) = 2
    /\ \A i, j \in DOMAIN arg_matrix : arg_matrix[i][j] >= 0

\* the pool index_all of the greedy routine when it comes to row b
RECURSIVE PoolAt(_)
PoolAt(b) ==
    IF b = 0 THEN tolist(len(arg_matrix))
    ELSE LET before == PoolAt(b - 1)
         IN pop(before, argmax([j \in 1..Len(before) |-> arg_matrix[b - 1][before[j]]]))

\* the still unassigned columns that hold the maximum of row b over the unassigned ones
TiedColumns(b) ==
    LET unassigned == (DOMAIN arg_matrix) \ {ret_approx.ind[b2] : b2 \in 0..(b - 1)}
    IN {c \in unassigned : \A c2 \in unassigned : arg_matrix[b][c2] <= arg_matrix[b][c]}

\* C27: the greedy routine gives row b the lowest column among the unassigned ones
\* that hold the maximum of row b; its pool of unassigned columns is ascending at
\* every row and holds the unassigned columns; the result is the one the matrix
\* determines
C27_GreedyTieTakesLowestColumn ==
    ret_approx.type = "tuple" =>
        \A b \in DOMAIN arg_matrix :
            /\ ret_approx.ind[b] \in TiedColumns(b)
            /\ \A c \in TiedColumns(b) : ret_approx.ind[b] <= c
            /\ \A j \in 1..(Len(PoolAt(b)) - 1) : PoolAt(b)[j] < PoolAt(b)[j + 1]
            /\ {PoolAt(b)[j] : j \in 1..Len(PoolAt(b))} =
                   (DOMAIN arg_matrix) \ {ret_approx.ind[b2] : b2 \in 0..(b - 1)}

\* C27 happens: at a row after the first, the pool has a gap and two of its columns
\* hold the maximum of the row
C27_Witness ==
    /\ ret_approx.type = "tuple"
    /\ \E b \in DOMAIN arg_matrix :
          /\ b > 0
          /\ Cardinality(TiedColumns(b)) >= 2
          /\ \E j \in 1..(Len(PoolAt(b)) - 1) : PoolAt(b)[j] + 1 < PoolAt(b)[j + 1]

(***************************************************************************)
(* The threshold and the cached pair.                                      *)
(***************************************************************************)
\* C28: the pair a read of disentangle_matrix or an application has just used has a
\* WorkingIndexMap computed with the current value of the threshold, also when the
\* threshold was assigned after a pair was computed and cached
C28_Original ==
    (Cached /\ result.type \in {"tuple", "ndarray"}) =>
        \E p \in _calc_disentangle_matrix(overlap_matrix, _routine, threshold) :
            p.type = "locals" /\ p.working_indices = WorkingIndexMap

(***************************************************************************)
(* Sweep.mirrored.                                                         *)
(***************************************************************************)
\* C30: Sweep.mirrored with an axis other than 'x' and 'y' fails with
\* RuntimeError("Invalid axis") and returns no Sweep; with 'x' or 'y' it returns a
\* Sweep; either way it leaves x, y and data of the original as they are
C30_Original ==
    [][\A ax \in Axes :
          mirrored_call(ax) =>
              /\ sweep'.x = sweep.x /\ sweep'.y = sweep.y /\ sweep'.data = sweep.data
              /\ IF ax \in {str("x"), str("y")}
                 THEN mirrored_ret'.type = "Sweep"
                 ELSE mirrored_ret' = RuntimeError("Invalid axis")]_vars

=============================================================================
